---------------------------- MODULE Spec2Model ----------------------------
(***************************************************************************)
(* SerperSearchProvider (src/lib/tools/search/providers/serper.ts): one    *)
(* search() fans out to up to four category handlers (web, video, image,   *)
(* news) that share one mutable SearchResults object.  JavaScript runs the *)
(* handlers as cooperative tasks: each runs without interruption between   *)
(* its awaits (fetch, response.json()), and the order in which the network *)
(* calls settle is free.                                                   *)
(*                                                                         *)
(* An optional JavaScript value is a sequence of length at most one:       *)
(* << >> is undefined, << v >> is the value v.                             *)
(***************************************************************************)
EXTENDS Integers, Sequences, FiniteSets, TLC

VARIABLES
    apiKey,     \* this.apiKey: << >> when SERPER_API_KEY is not set
    args,       \* the arguments of each invocation of search()
    pc,         \* where each invocation of search() stands
    err,        \* the message of the Error an invocation threw ("" if none)
    results,    \* the SearchResults object of each invocation
    handler,    \* per invocation and category: the handler's position
    response,   \* per invocation and category: what the backend answered
    requests,   \* per invocation: the outbound fetch() calls, in issue order
    logs,       \* per invocation: the console.error events emitted
    finished    \* per invocation: the categories in the order their handlers finished

vars == <<apiKey, args, pc, err, results, handler, response, requests, logs, finished>>

---------------------------------------------------------------------------
(* Bounds of the model *)

\* longest upstream item list a backend answers with
MaxItems == 2

\* largest explicit maxResults argument
MaxCap == 1

---------------------------------------------------------------------------
(* Program constants *)

\* maxResults: number = 10
DefaultMaxResults == 10

Calls == {1, 2}

Categories == {"web", "video", "image", "news"}

\* the order in which search() starts the handlers
StartOrder == <<"web", "video", "image", "news">>

Endpoint(cat) ==
    CASE cat = "web" -> "https://google.serper.dev/search"
      [] cat = "video" -> "https://google.serper.dev/videos"
      [] cat = "image" -> "https://google.serper.dev/images"
      [] cat = "news" -> "https://google.serper.dev/news"

---------------------------------------------------------------------------
(* JavaScript helpers *)

Undefined == << >>

Some(v) == << v >>

IsDefined(o) == Len(o) > 0

\* a || d on an optional string: undefined and "" are both falsy
OrElse(o, d) == IF IsDefined(o) /\ o[1] # "" THEN o[1] ELSE d

\* a ?? d on an optional string: only undefined (or null) is replaced
Coalesce(o, d) == IF IsDefined(o) THEN o[1] ELSE d

Min(a, b) == IF a < b THEN a ELSE b

Max(a, b) == IF a > b THEN a ELSE b

\* Array.prototype.slice(0, n): a negative n counts from the end
Slice0(s, n) ==
    LET end == IF n < 0 THEN Max(Len(s) + n, 0) ELSE Min(n, Len(s))
    IN  SubSeq(s, 1, end)

\* Array.prototype.join on strings
RECURSIVE Join(_, _)
Join(s, sep) ==
    IF Len(s) = 0 THEN ""
    ELSE IF Len(s) = 1 THEN s[1]
    ELSE s[1] \o sep \o Join(Tail(s), sep)

\* Array.prototype.includes
Includes(s, x) == \E i \in 1..Len(s) : s[i] = x


---------------------------------------------------------------------------
(* The stub backend: what a category endpoint may answer *)

\* a null entry of an upstream list: reading a field of it is a TypeError
NullItem == [isNull |-> TRUE]

\* upstream item i of a category; which optional fields are missing or empty
\* depends on i, so that every fallback of the normalisation is exercised
RawItem(cat, i) ==
    LET tag == cat \o "-" \o ToString(i)
        full == i % 3 = 1
        sparse == i % 3 = 2
    IN  CASE cat \in {"web", "news"} ->
               [isNull |-> FALSE,
                title |-> IF full THEN Some("title " \o tag)
                          ELSE IF sparse THEN Undefined ELSE Some(""),
                link |-> IF i % 3 = 0 THEN Undefined ELSE Some("link " \o tag),
                snippet |-> IF full THEN Some("snippet " \o tag)
                            ELSE IF sparse THEN Some("") ELSE Undefined,
                position |-> i + 100]
          [] cat = "video" ->
               [isNull |-> FALSE,
                title |-> IF full THEN Some("title " \o tag)
                          ELSE IF sparse THEN Some("") ELSE Undefined,
                link |-> IF sparse THEN Undefined ELSE Some("link " \o tag),
                snippet |-> IF full THEN Some("snippet " \o tag) ELSE Undefined,
                imageUrl |-> IF full THEN Some("image " \o tag) ELSE Undefined,
                duration |-> IF full THEN Some("1:00") ELSE Undefined,
                source |-> IF sparse THEN Undefined ELSE Some("source " \o tag),
                channel |-> IF full THEN Some("channel " \o tag) ELSE Undefined,
                date |-> IF full THEN Some("date " \o tag) ELSE Undefined,
                position |-> i + 100]
          [] cat = "image" ->
               [isNull |-> FALSE,
                title |-> IF full THEN Some("title " \o tag)
                          ELSE IF sparse THEN Some("") ELSE Undefined,
                imageUrl |-> IF i % 3 = 0 THEN Undefined ELSE Some("image " \o tag),
                thumbnailUrl |-> IF full THEN Some("thumb " \o tag)
                                 ELSE IF sparse THEN Undefined ELSE Some(""),
                link |-> IF full THEN Some("link " \o tag) ELSE Undefined,
                position |-> i + 100]

\* the first n upstream items of a category
Payload(cat, n) == [i \in 1..n |-> RawItem(cat, i)]

\* the parsed bodies of a response: "invalid" (response.json() rejects),
\* "absent" (the category's field is missing), "notArray" (the field holds a
\* truthy value that is no array), "array" (the field holds a list: a prefix
\* of the category's items, an item followed by null, and for images also
\* the one item that has neither a thumbnail nor an image URL)
NoBody == [kind |-> "none", items |-> << >>]

Bodies(cat) ==
    {[kind |-> k, items |-> << >>] : k \in {"invalid", "absent", "notArray"}}
      \cup {[kind |-> "array", items |-> Payload(cat, n)] : n \in 0..MaxItems}
      \cup {[kind |-> "array", items |-> Append(Payload(cat, 1), NullItem)]}
      \cup (IF cat = "image"
            THEN {[kind |-> "array", items |-> <<RawItem(cat, 3)>>]}
            ELSE {})

\* what fetch() may settle with: a rejection ("netError"), a response with
\* response.ok false ("httpError"), or an ok response with a body
NoResponse == [status |-> "pending", body |-> NoBody]

Responses(cat) ==
    {[status |-> s, body |-> NoBody] : s \in {"netError", "httpError"}}
      \cup {[status |-> "ok", body |-> b] : b \in Bodies(cat)}

---------------------------------------------------------------------------
(* Normalisation of upstream items *)

\* searchWeb / searchNews: the mapped item
MapWebItem(r) ==
    [title |-> OrElse(r.title, "No title"),
     url |-> r.link,
     content |-> OrElse(r.snippet, "No description available")]

\* a video item that keeps the position the upstream item carried
MapVideoItemUpstreamPosition(r, index) ==
    [title |-> Coalesce(r.title, "No title"),
     link |-> Coalesce(r.link, ""),
     snippet |-> Coalesce(r.snippet, "No description available"),
     imageUrl |-> Coalesce(r.imageUrl, ""),
     duration |-> Coalesce(r.duration, ""),
     source |-> Coalesce(r.source, ""),
     channel |-> Coalesce(r.channel, ""),
     date |-> Coalesce(r.date, ""),
     position |-> r.position]

\* searchVideos: the mapped item; index is the zero-based place in the list
MapVideoItem(r, index) ==
    [title |-> Coalesce(r.title, "No title"),
     link |-> Coalesce(r.link, ""),
     snippet |-> Coalesce(r.snippet, "No description available"),
     imageUrl |-> Coalesce(r.imageUrl, ""),
     duration |-> Coalesce(r.duration, ""),
     source |-> Coalesce(r.source, ""),
     channel |-> Coalesce(r.channel, ""),
     date |-> Coalesce(r.date, ""),
     position |-> index]

\* an image item without the fallback to imageUrl
MapImageItemNoFallback(r) ==
    [title |-> OrElse(r.title, "No title"),
     link |-> OrElse(r.link, ""),
     thumbnailUrl |-> OrElse(r.thumbnailUrl, "")]

\* searchImages: the mapped item
MapImageItem(r) ==
    [title |-> OrElse(r.title, "No title"),
     link |-> OrElse(r.link, ""),
     thumbnailUrl |-> OrElse(r.thumbnailUrl, OrElse(r.imageUrl, ""))]

MapItem(cat, r, index) ==
    CASE cat \in {"web", "news"} -> MapWebItem(r)
      [] cat = "video" -> MapVideoItem(r, index)
      [] cat = "image" -> MapImageItem(r)

\* a normalisation that forgets the slice
TruncateNothing(items, maxResults) == items

\* (data.<field> || []).slice(0, maxResults)
Truncate(items, maxResults) == Slice0(items, maxResults)

\* (data.<field> || []).slice(0, maxResults).map(...): the mapped list, or
\* threw = TRUE when the expression raises a TypeError
Normalise(cat, body, maxResults) ==
    IF body.kind = "notArray" THEN [threw |-> TRUE, items |-> << >>]
    ELSE LET kept == Truncate(body.items, maxResults)
         IN  IF \E i \in 1..Len(kept) : kept[i].isNull
             THEN [threw |-> TRUE, items |-> << >>]
             ELSE [threw |-> FALSE,
                   items |-> [i \in 1..Len(kept) |-> MapItem(cat, kept[i], i - 1)]]

---------------------------------------------------------------------------
(* search(): the synchronous part *)

\* maxResults: number = 10
EffectiveMax(a) == IF IsDefined(a.maxResults) THEN a.maxResults[1] ELSE DefaultMaxResults

\* a default that is also applied to an empty content_types
ContentTypesEmptyDefaults(a) ==
    IF /\ IsDefined(a.options)
       /\ IsDefined(a.options[1].content_types)
       /\ Len(a.options[1].content_types[1]) > 0
    THEN a.options[1].content_types[1]
    ELSE <<"web">>

\* const contentTypes = options?.content_types || ['web']
\* (an empty array is truthy: it is kept)
ContentTypes(a) ==
    IF IsDefined(a.options) /\ IsDefined(a.options[1].content_types)
    THEN a.options[1].content_types[1]
    ELSE <<"web">>

\* a rewriting that puts the exclude filter before the include filter
SearchQueryExcludeFirst(query, includeDomains, excludeDomains) ==
    LET excludeFilters ==
            Join([i \in 1..Len(excludeDomains[1]) |-> "-site:" \o excludeDomains[1][i]],
                 " ")
        q1 == IF IsDefined(excludeDomains) /\ Len(excludeDomains[1]) > 0
              THEN query \o " " \o excludeFilters
              ELSE query
        siteFilters ==
            Join([i \in 1..Len(includeDomains[1]) |-> "site:" \o includeDomains[1][i]],
                 " OR ")
    IN  IF IsDefined(includeDomains) /\ Len(includeDomains[1]) > 0
        THEN q1 \o " (" \o siteFilters \o ")"
        ELSE q1

\* the domain filter built into the query
SearchQuery(query, includeDomains, excludeDomains) ==
    LET siteFilters ==
            Join([i \in 1..Len(includeDomains[1]) |-> "site:" \o includeDomains[1][i]],
                 " OR ")
        q1 == IF IsDefined(includeDomains) /\ Len(includeDomains[1]) > 0
              THEN query \o " (" \o siteFilters \o ")"
              ELSE query
        excludeFilters ==
            Join([i \in 1..Len(excludeDomains[1]) |-> "-site:" \o excludeDomains[1][i]],
                 " ")
    IN  IF IsDefined(excludeDomains) /\ Len(excludeDomains[1]) > 0
        THEN q1 \o " " \o excludeFilters
        ELSE q1

\* the handlers search() starts: one per category that contentTypes includes
Active(a) == {cat \in Categories : Includes(ContentTypes(a), cat)}

\* a fan-out whose news handler is started whatever contentTypes holds
RECURSIVE IssuedNewsAlways(_, _, _, _)
IssuedNewsAlways(order, active, q, num) ==
    IF Len(order) = 0 THEN << >>
    ELSE (IF Head(order) \in active \cup {"news"}
          THEN <<[url |-> Endpoint(Head(order)), q |-> q, num |-> num]>>
          ELSE << >>) \o IssuedNewsAlways(Tail(order), active, q, num)

\* the fetch() calls of the started handlers, in the order they are issued
RECURSIVE Issued(_, _, _, _)
Issued(order, active, q, num) ==
    IF Len(order) = 0 THEN << >>
    ELSE (IF Head(order) \in active
          THEN <<[url |-> Endpoint(Head(order)), q |-> q, num |-> num]>>
          ELSE << >>) \o Issued(Tail(order), active, q, num)

\* a SearchResults built with the rewritten query
NewResultsRewritten(a) ==
    [results |-> << >>, images |-> << >>, videos |-> << >>,
     query |-> SearchQuery(a.query, a.includeDomains, a.excludeDomains),
     number_of_results |-> 0]

\* const results: SearchResults = { results: [], images: [], videos: [], query,
\* number_of_results: 0 }, built from the arguments a of the invocation
NewResults(a) ==
    [results |-> << >>, images |-> << >>, videos |-> << >>,
     query |-> a.query, number_of_results |-> 0]

\* the value of results[c] while invocation c has built no object yet
NoResults ==
    [results |-> << >>, images |-> << >>, videos |-> << >>,
     query |-> "", number_of_results |-> 0]

\* a search() that does not check the key
KeyUnchecked(key) == TRUE

\* if (!this.apiKey): undefined and "" are both falsy
KeyConfigured(key) == IsDefined(key) /\ key[1] # ""

\* search(), from its call to `await Promise.all(promises)`
Search(c) ==
    /\ args[c].called
    /\ pc[c] = "idle"
    /\ IF ~KeyConfigured(apiKey)
       THEN /\ pc' = [pc EXCEPT ![c] = "thrown"]
            /\ err' = [err EXCEPT ![c] = "Serper API key not configured"]
            /\ UNCHANGED <<results, handler, requests>>
       ELSE LET a == args[c]
                q == SearchQuery(a.query, a.includeDomains, a.excludeDomains)
            IN  /\ results' = [results EXCEPT ![c] = NewResults(a)]
                /\ handler' = [handler EXCEPT ![c] =
                       [cat \in Categories |->
                           IF cat \in Active(a) THEN "fetch" ELSE "idle"]]
                /\ requests' = [requests EXCEPT ![c] =
                       Issued(StartOrder, Active(a), q, EffectiveMax(a))]
                /\ pc' = [pc EXCEPT ![c] = "awaitAll"]
                /\ UNCHANGED err
    /\ UNCHANGED <<apiKey, args, response, logs, finished>>

---------------------------------------------------------------------------
(* The category handlers.  Each is cut at its two awaits: the part that    *)
(* runs when fetch() settles and the part that runs when response.json()   *)
(* settles.  A part yields the handler's next position, the SearchResults  *)
(* object it leaves and the console.error events it emits.                 *)

Step(stage, res, events) == [stage |-> stage, results |-> res, logs |-> events]

LogFailed(cat) == [cat |-> cat, msg |-> "search failed"]

LogError(cat) == [cat |-> cat, msg |-> "search error"]

\* results.results = <mapped organic items>
WebAssign(res, items) == [res EXCEPT !.results = items]

\* a news handler that assigns its items instead of appending them
NewsOverwrite(res, items) == [res EXCEPT !.results = items]

\* results.results = [...results.results, ...newsResults]
NewsAppend(res, items) == [res EXCEPT !.results = res.results \o items]

\* results.videos = <mapped videos>
VideoAssign(res, items) == [res EXCEPT !.videos = items]

\* results.images = <mapped images>
ImageAssign(res, items) == [res EXCEPT !.images = items]

\* a web handler whose catch clears its list, as the video handler's does
WebCatchClears(res) ==
    [stage |-> "fulfilled", results |-> [res EXCEPT !.results = << >>],
     logs |-> {LogError("web")}]

\* searchWeb: catch (error) { console.error(...) }
WebCatch(res) == Step("fulfilled", res, {LogError("web")})

\* a video handler whose catch resets every list of the object
VideoCatchResetsAll(res) ==
    [stage |-> "fulfilled",
     results |-> [res EXCEPT !.videos = << >>, !.images = << >>, !.results = << >>],
     logs |-> {LogError("video")}]

\* searchVideos: catch (error) { console.error(...); results.videos = [] }
VideoCatch(res) ==
    Step("fulfilled", [res EXCEPT !.videos = << >>], {LogError("video")})

\* searchImages: catch (error) { console.error(...); results.images = [] }
ImageCatch(res) ==
    Step("fulfilled", [res EXCEPT !.images = << >>], {LogError("image")})

\* searchNews: catch (error) { console.error(...) }
NewsCatch(res) == Step("fulfilled", res, {LogError("news")})

\* adds the events of the statements that ran before a throw
WithLogs(step, events) == [step EXCEPT !.logs = @ \cup events]

\* searchWeb, when fetch() settles with r
SearchWebFetched(res, r) ==
    CASE r.status = "netError" -> WebCatch(res)
      [] r.status = "httpError" -> WithLogs(WebCatch(res), {LogFailed("web")})
      [] OTHER -> Step("json", res, {})

\* searchWeb, when response.json() settles
SearchWebParsed(res, r, maxResults) ==
    IF r.body.kind = "invalid" THEN WebCatch(res)
    ELSE LET n == Normalise("web", r.body, maxResults)
         IN  IF n.threw THEN WebCatch(res)
             ELSE Step("fulfilled", WebAssign(res, n.items), {})

\* a video handler that does not test response.ok
SearchVideosFetchedUnchecked(res, r) ==
    IF r.status = "netError" THEN VideoCatch(res) ELSE Step("json", res, {})

\* searchVideos, when fetch() settles with r
SearchVideosFetched(res, r) ==
    CASE r.status = "netError" -> VideoCatch(res)
      [] r.status = "httpError" -> WithLogs(VideoCatch(res), {LogFailed("video")})
      [] OTHER -> Step("json", res, {})

\* searchVideos, when response.json() settles
SearchVideosParsed(res, r, maxResults) ==
    IF r.body.kind = "invalid" THEN VideoCatch(res)
    ELSE LET n == Normalise("video", r.body, maxResults)
         IN  IF n.threw THEN VideoCatch(res)
             ELSE Step("fulfilled", VideoAssign(res, n.items), {})

\* searchImages, when fetch() settles with r
SearchImagesFetched(res, r) ==
    CASE r.status = "netError" -> ImageCatch(res)
      [] r.status = "httpError" -> WithLogs(ImageCatch(res), {LogFailed("image")})
      [] OTHER -> Step("json", res, {})

\* searchImages, when response.json() settles
SearchImagesParsed(res, r, maxResults) ==
    IF r.body.kind = "invalid" THEN ImageCatch(res)
    ELSE LET n == Normalise("image", r.body, maxResults)
         IN  IF n.threw THEN ImageCatch(res)
             ELSE Step("fulfilled", ImageAssign(res, n.items), {})

\* a news handler that empties results.results when the response is not ok
SearchNewsFetchedClears(res, r) ==
    CASE r.status = "netError" -> NewsCatch(res)
      [] r.status = "httpError" ->
            Step("fulfilled", [res EXCEPT !.results = << >>], {LogFailed("news")})
      [] OTHER -> Step("json", res, {})

\* searchNews, when fetch() settles with r: a response that is not ok is
\* logged and the handler returns without throwing
SearchNewsFetched(res, r) ==
    CASE r.status = "netError" -> NewsCatch(res)
      [] r.status = "httpError" -> Step("fulfilled", res, {LogFailed("news")})
      [] OTHER -> Step("json", res, {})

\* searchNews, when response.json() settles
SearchNewsParsed(res, r, maxResults) ==
    IF r.body.kind = "invalid" THEN NewsCatch(res)
    ELSE LET n == Normalise("news", r.body, maxResults)
         IN  IF n.threw THEN NewsCatch(res)
             ELSE Step("fulfilled", NewsAppend(res, n.items), {})

Fetched(cat, res, r) ==
    CASE cat = "web" -> SearchWebFetched(res, r)
      [] cat = "video" -> SearchVideosFetched(res, r)
      [] cat = "image" -> SearchImagesFetched(res, r)
      [] cat = "news" -> SearchNewsFetched(res, r)

Parsed(cat, res, r, maxResults) ==
    CASE cat = "web" -> SearchWebParsed(res, r, maxResults)
      [] cat = "video" -> SearchVideosParsed(res, r, maxResults)
      [] cat = "image" -> SearchImagesParsed(res, r, maxResults)
      [] cat = "news" -> SearchNewsParsed(res, r, maxResults)

\* a provider that keeps one SearchResults for all its invocations
ApplyShared(c, cat, step) ==
    /\ results' = [d \in Calls |-> IF pc[d] = "awaitAll" THEN step.results ELSE results[d]]
    /\ handler' = [handler EXCEPT ![c][cat] = step.stage]
    /\ logs' = [logs EXCEPT ![c] = @ \cup step.logs]
    /\ finished' = [finished EXCEPT ![c] =
           IF step.stage = "json" THEN @ ELSE Append(@, cat)]

\* the handler's step replaces the invocation's object, position and log
Apply(c, cat, step) ==
    /\ results' = [results EXCEPT ![c] = step.results]
    /\ handler' = [handler EXCEPT ![c][cat] = step.stage]
    /\ logs' = [logs EXCEPT ![c] = @ \cup step.logs]
    /\ finished' = [finished EXCEPT ![c] =
           IF step.stage = "json" THEN @ ELSE Append(@, cat)]

\* `await fetch(...)` of a handler settles: the backend answers r
FetchSettles(c, cat) ==
    /\ handler[c][cat] = "fetch"
    /\ \E r \in Responses(cat) :
          /\ response' = [response EXCEPT ![c][cat] = r]
          /\ Apply(c, cat, Fetched(cat, results[c], r))
    /\ UNCHANGED <<apiKey, args, pc, err, requests>>

\* `await response.json()` of a handler settles
JsonSettles(c, cat) ==
    /\ handler[c][cat] = "json"
    /\ Apply(c, cat, Parsed(cat, results[c], response[c][cat], EffectiveMax(args[c])))
    /\ UNCHANGED <<apiKey, args, pc, err, response, requests>>

---------------------------------------------------------------------------
(* search(): after the fan-out *)

\* a join that also waits for the handlers search() never started
SettledAllFour(h) == \A cat \in Categories : h[cat] = "fulfilled"

\* Promise.any in place of Promise.all: fulfilled once one promise is
SettledAny(h) ==
    \/ \A cat \in Categories : h[cat] = "idle"
    \/ \E cat \in Categories : h[cat] = "fulfilled"

\* Promise.all(promises) is fulfilled once every promise pushed is
Settled(h) == \A cat \in Categories : h[cat] \in {"idle", "fulfilled"}

\* Promise.all(promises) is rejected as soon as one promise is
Rejected(h) == \E cat \in Categories : h[cat] = "rejected"

\* a count that takes in the images and the videos
CountEverything(res) ==
    [res EXCEPT !.number_of_results =
        Len(res.results) + Len(res.images) + Len(res.videos)]

\* results.number_of_results = results.results.length
CountResults(res) == [res EXCEPT !.number_of_results = Len(res.results)]

\* search(), from `await Promise.all(promises)` to its return
AwaitAll(c) ==
    /\ pc[c] = "awaitAll"
    /\ IF Rejected(handler[c])
       THEN /\ pc' = [pc EXCEPT ![c] = "thrown"]
            /\ err' = [err EXCEPT ![c] = "Search failed"]
            /\ UNCHANGED results
       ELSE /\ Settled(handler[c])
            /\ results' = [results EXCEPT ![c] = CountResults(results[c])]
            /\ pc' = [pc EXCEPT ![c] = "returned"]
            /\ UNCHANGED err
    /\ UNCHANGED <<apiKey, args, handler, response, requests, logs, finished>>

---------------------------------------------------------------------------
(* The callers *)

NotCalled ==
    [called |-> FALSE, query |-> "", maxResults |-> Undefined,
     includeDomains |-> Undefined, excludeDomains |-> Undefined,
     options |-> Undefined]

Call(query, maxResults, includeDomains, excludeDomains, options) ==
    [called |-> TRUE, query |-> query, maxResults |-> maxResults,
     includeDomains |-> includeDomains, excludeDomains |-> excludeDomains,
     options |-> options]

WithTypes(types) == Some([content_types |-> Some(types)])

MaxResultsArgs == {Undefined} \cup {Some(n) : n \in 0..MaxCap}

\* <<includeDomains, excludeDomains>>
DomainArgs ==
    {<<Undefined, Undefined>>,
     <<Some(<< >>), Some(<< >>)>>,
     <<Some(<<"a.com", "b.org">>), Undefined>>,
     <<Undefined, Some(<<"c.net">>)>>,
     <<Some(<<"a.com">>), Some(<<"c.net", "d.io">>)>>}

OptionArgs ==
    {Undefined, Some([content_types |-> Undefined])}
      \cup {WithTypes(t) : t \in {<< >>, <<"web">>, <<"video">>, <<"image">>,
                                  <<"news">>, <<"web", "web">>, <<"web", "news">>,
                                  <<"news", "web">>, <<"video", "image">>}}

\* one invocation: every mix of arguments over at most two categories, and
\* the full fan-out with a cap that truncates
ArgSet ==
    {Call("cats", m, d[1], d[2], o) :
        m \in MaxResultsArgs, d \in DomainArgs, o \in OptionArgs}
      \cup {Call("cats", Some(1), Undefined, Undefined,
                 WithTypes(<<"news", "image", "video", "web">>))}

\* two invocations on one provider
PairArgSet ==
    {Call("cats", Some(1), Undefined, Some(<<"c.net">>), WithTypes(t)) :
        t \in {<<"web", "news">>, <<"news">>}}

KeyArgs == {Undefined, Some(""), Some("key")}

InitState ==
    /\ pc = [c \in Calls |-> "idle"]
    /\ err = [c \in Calls |-> ""]
    /\ results = [c \in Calls |-> NoResults]
    /\ handler = [c \in Calls |-> [cat \in Categories |-> "idle"]]
    /\ response = [c \in Calls |-> [cat \in Categories |-> NoResponse]]
    /\ requests = [c \in Calls |-> << >>]
    /\ logs = [c \in Calls |-> {}]
    /\ finished = [c \in Calls |-> << >>]

\* the constructor has run (this.apiKey = process.env.SERPER_API_KEY) and
\* one caller is about to invoke search()
Init ==
    /\ apiKey \in KeyArgs
    /\ \E a \in ArgSet : args = [c \in Calls |-> IF c = 1 THEN a ELSE NotCalled]
    /\ InitState

\* two callers invoke search() on a provider whose key is configured
InitPair ==
    /\ apiKey = Some("key")
    /\ args \in [Calls -> PairArgSet]
    /\ InitState

Next ==
    \/ \E c \in Calls : Search(c)
    \/ \E c \in Calls, cat \in Categories : FetchSettles(c, cat)
    \/ \E c \in Calls, cat \in Categories : JsonSettles(c, cat)
    \/ \E c \in Calls : AwaitAll(c)

Spec == Init /\ [][Next]_vars

SpecPair == InitPair /\ [][Next]_vars

\* the event loop runs every continuation that is ready, the caller makes
\* its call, and every network call started settles at some time
Fairness ==
    \A c \in Calls :
        /\ WF_vars(Search(c))
        /\ WF_vars(AwaitAll(c))
        /\ \A cat \in Categories :
              WF_vars(FetchSettles(c, cat)) /\ WF_vars(JsonSettles(c, cat))

\* one caller, for the termination property: no category, one, two or three
LiveArgSet ==
    {Call("cats", Some(1), Undefined, Some(<<"c.net">>), o) :
        o \in {Undefined, WithTypes(<< >>), WithTypes(<<"video">>),
               WithTypes(<<"web", "news">>), WithTypes(<<"image", "news", "web">>)}}

InitLive ==
    /\ apiKey \in KeyArgs
    /\ \E a \in LiveArgSet : args = [c \in Calls |-> IF c = 1 THEN a ELSE NotCalled]
    /\ InitState

FairSpec == InitLive /\ [][Next]_vars /\ Fairness

---------------------------------------------------------------------------
(* What the claims speak of *)

\* the cap of invocation c
Cap(c) == EffectiveMax(args[c])

\* the upstream list the backend sent invocation c for a category
Upstream(c, cat) == response[c][cat].body.items

\* the number of upstream items a handler may keep
Kept(c, cat) == Min(Cap(c), Len(Upstream(c, cat)))

\* the handler of a category has finished and its call succeeded: an ok
\* response whose body parsed and whose kept items are all objects
Succeeded(c, cat) ==
    /\ handler[c][cat] = "fulfilled"
    /\ response[c][cat].status = "ok"
    /\ response[c][cat].body.kind \in {"absent", "array"}
    /\ \A i \in 1..Kept(c, cat) : ~Upstream(c, cat)[i].isNull

\* the handler of a category has finished and its call failed
Failed(c, cat) == handler[c][cat] = "fulfilled" /\ ~Succeeded(c, cat)

\* the items a successful call of a category contributes: the first Cap(c)
\* upstream items, mapped, in upstream order
Expected(c, cat) ==
    [i \in 1..Kept(c, cat) |-> MapItem(cat, Upstream(c, cat)[i], i - 1)]

IsPrefix(s, t) == Len(s) <= Len(t) /\ SubSeq(t, 1, Len(s)) = s

BothActive(c) == {"web", "news"} \subseteq Active(args[c])

\* C1: with web and news both active and both calls successful (each list
\* within maxResults), the returned results.results is the mapped web items
\* followed by the mapped news items and number_of_results is their total,
\* in every order of completion.
C1_WebThenNews ==
    \A c \in Calls :
        (/\ pc[c] = "returned"
         /\ BothActive(c)
         /\ Succeeded(c, "web") /\ Succeeded(c, "news")
         /\ Len(Upstream(c, "web")) <= Cap(c)
         /\ Len(Upstream(c, "news")) <= Cap(c))
        => /\ results[c].results = Expected(c, "web") \o Expected(c, "news")
           /\ results[c].number_of_results
                 = Len(Upstream(c, "web")) + Len(Upstream(c, "news"))

\* C2: once the web handler has succeeded, results.results begins with
\* exactly the web handler's mapped items in upstream order, and whatever
\* follows them is the news handler's mapped items: news never overwrites web.
C2_NewsNeverOverwritesWeb ==
    \A c \in Calls :
        Succeeded(c, "web")
        => /\ IsPrefix(Expected(c, "web"), results[c].results)
           /\ \/ results[c].results = Expected(c, "web")
              \/ /\ Succeeded(c, "news")
                 /\ results[c].results = Expected(c, "web") \o Expected(c, "news")

\* web succeeded with items, then news appended its own after them
C2_Witness ==
    /\ pc[1] = "returned"
    /\ Succeeded(1, "web") /\ Succeeded(1, "news")
    /\ Len(Expected(1, "web")) > 0 /\ Len(Expected(1, "news")) > 0
    /\ Len(results[1].results) = Len(Expected(1, "web")) + Len(Expected(1, "news"))

\* C3: with the credential present search never throws, whatever each
\* category's call does, and in the returned value a successful category's
\* items are those of its own response, whichever other categories failed.
C3_FailuresIsolated ==
    \A c \in Calls :
        /\ (apiKey = Some("key") => pc[c] # "thrown")
        /\ pc[c] = "returned" =>
              /\ Succeeded(c, "video") => results[c].videos = Expected(c, "video")
              /\ Succeeded(c, "image") => results[c].images = Expected(c, "image")
              /\ (Succeeded(c, "web") /\ ~Succeeded(c, "news"))
                    => results[c].results = Expected(c, "web")
              /\ (Succeeded(c, "news") /\ ~Succeeded(c, "web"))
                    => results[c].results = Expected(c, "news")

\* web and video failed in different ways; news and image kept their items
C3_Witness ==
    /\ pc[1] = "returned"
    /\ Failed(1, "web") /\ response[1]["web"].status = "httpError"
    /\ Failed(1, "video") /\ response[1]["video"].body.kind = "invalid"
    /\ Succeeded(1, "news") /\ Len(results[1].results) > 0
    /\ Succeeded(1, "image") /\ Len(results[1].images) > 0

\* C4: number_of_results is the length of results.results in every returned
\* value (images and videos are not counted), and it keeps its initial 0
\* until every started handler has finished.
C4_CountIsLength ==
    \A c \in Calls :
        /\ pc[c] = "returned"
              => results[c].number_of_results = Len(results[c].results)
        /\ results[c].number_of_results # 0
              => pc[c] = "returned" /\ Settled(handler[c])

\* two results counted while an image and a video are present
C4_Witness ==
    /\ pc[1] = "returned"
    /\ results[1].number_of_results = 2
    /\ Len(results[1].images) > 0
    /\ Len(results[1].videos) > 0
    /\ Failed(1, "image") = FALSE

\* C5: without a credential search throws the configuration error for all
\* inputs, issues no network call and starts no handler.
C5_NoKeyNoCalls ==
    apiKey \in {Undefined, Some("")}
    => \A c \in Calls :
          /\ pc[c] \in {"idle", "thrown"}
          /\ pc[c] = "thrown" => err[c] = "Serper API key not configured"
          /\ requests[c] = << >>
          /\ \A cat \in Categories :
                handler[c][cat] = "idle" /\ response[c][cat] = NoResponse

\* the configuration error, for a call that asked for four categories
C5_Witness ==
    /\ apiKey = Undefined
    /\ pc[1] = "thrown"
    /\ Cardinality(Active(args[1])) = 4

\* C6: search returns only when every handler it started has finished, a
\* failed one included, and from then on no step changes the returned object.
C6_ReturnsAfterAllHandlers ==
    /\ [](\A c \in Calls :
            pc[c] = "returned"
            => \A cat \in Active(args[c]) : handler[c][cat] = "fulfilled")
    /\ [][\A c \in Calls : pc[c] = "returned" => results'[c] = results[c]]_vars

\* the web call failed first and search still waited for the news items
C6_Witness ==
    /\ pc[1] = "returned"
    /\ response[1]["web"].status = "netError"
    /\ Failed(1, "web")
    /\ Succeeded(1, "news")
    /\ Len(results[1].results) = 2

\* C7: two calls with the same arguments that get the same response for
\* each category return the same SearchResults, in every order of completion.
C7_SameInputsSameResults ==
    (/\ pc[1] = "returned" /\ pc[2] = "returned"
     /\ args[1] = args[2]
     /\ response[1] = response[2])
    => results[1] = results[2]

\* C8: with maxResults >= 1 a category contributes at most maxResults items,
\* the first ones of the upstream list in upstream order: images and videos
\* directly, web and news as the two parts of results.results.
C8_AtMostMaxResults ==
    \A c \in Calls :
        (pc[c] = "returned" /\ Cap(c) >= 1)
        => /\ Len(results[c].images) <= Cap(c)
           /\ Len(results[c].videos) <= Cap(c)
           /\ Succeeded(c, "image") =>
                 /\ Len(results[c].images) = Kept(c, "image")
                 /\ \A i \in 1..Kept(c, "image") :
                       results[c].images[i] = MapImageItem(Upstream(c, "image")[i])
           /\ Succeeded(c, "video") =>
                 /\ Len(results[c].videos) = Kept(c, "video")
                 /\ \A i \in 1..Kept(c, "video") :
                       results[c].videos[i]
                          = MapVideoItem(Upstream(c, "video")[i], i - 1)
           /\ LET webPart == IF Succeeded(c, "web") THEN Expected(c, "web") ELSE << >>
                  newsPart == IF Succeeded(c, "news") THEN Expected(c, "news") ELSE << >>
              IN  /\ Len(webPart) <= Cap(c)
                  /\ Len(newsPart) <= Cap(c)
                  /\ results[c].results \in {webPart, webPart \o newsPart}

\* every category was sent more items than the cap and kept the first ones
C8_Witness ==
    /\ pc[1] = "returned"
    /\ Cap(1) = 1
    /\ \A cat \in Categories :
          /\ Succeeded(1, cat)
          /\ Len(Upstream(1, cat)) = 2
          /\ ~Upstream(1, cat)[2].isNull
    /\ Len(results[1].results) = 2
    /\ Len(results[1].images) = 1
    /\ Len(results[1].videos) = 1

\* C9: from the construction of the SearchResults to its return, its query
\* field is the caller's query, whatever the domain filters are.
C9_QueryVerbatim ==
    \A c \in Calls :
        pc[c] \in {"awaitAll", "returned"} => results[c].query = args[c].query

\* returned after the requests went out with a rewritten query
C9_Witness ==
    /\ pc[1] = "returned"
    /\ Len(requests[1]) = 2
    /\ requests[1][1].q = "cats (site:a.com) -site:c.net -site:d.io"
    /\ results[1].query = "cats"

\* C10: with the credential present, once every network call started has
\* settled, in success or in failure, search returns: it stays blocked on no
\* combination of outcomes.
C10_EventuallyReturns ==
    \A c \in Calls :
        (apiKey = Some("key") /\ args[c].called) ~> pc[c] = "returned"

\* returned although each of the three calls failed, each in its own way
C10_Witness ==
    /\ pc[1] = "returned"
    /\ Cardinality(Active(args[1])) = 3
    /\ response[1]["web"].status = "netError"
    /\ response[1]["image"].body.kind = "invalid"
    /\ response[1]["news"].status = "httpError"
    /\ \A cat \in Active(args[1]) : Failed(1, cat)

\* C11: two runs with the same arguments, the same responses of the other
\* categories and the same order of handler completion, in one of which a
\* category's call fails and in the other succeeds with no item, return the
\* same SearchResults.
C11_FailureLooksEmpty ==
    \A cat \in Categories :
        (/\ pc[1] = "returned" /\ pc[2] = "returned"
         /\ args[1] = args[2]
         /\ finished[1] = finished[2]
         /\ \A other \in Categories \ {cat} : response[1][other] = response[2][other]
         /\ Failed(1, cat)
         /\ Succeeded(2, cat) /\ Len(Upstream(2, cat)) = 0)
        => results[1] = results[2]

\* C12: when the video backend answers with a status that is not ok, the
\* video handler finishes with results.videos empty and a console.error
\* event of the video category logged, search does not throw, and the value
\* it returns holds the other categories' items as their responses gave them.
C12_VideoHttpFailure ==
    \A c \in Calls :
        response[c]["video"].status = "httpError"
        => /\ handler[c]["video"] = "fulfilled"
           /\ results[c].videos = << >>
           /\ \E e \in logs[c] : e.cat = "video"
           /\ LogFailed("video") \in logs[c]
           /\ pc[c] # "thrown"
           /\ pc[c] = "returned" =>
                 /\ Succeeded(c, "image") => results[c].images = Expected(c, "image")
                 /\ Succeeded(c, "web")
                       => IsPrefix(Expected(c, "web"), results[c].results)
                 /\ (Succeeded(c, "news") /\ ~Succeeded(c, "web"))
                       => results[c].results = Expected(c, "news")

\* the video call was refused while web, image and news delivered an item each
C12_Witness ==
    /\ pc[1] = "returned"
    /\ response[1]["video"].status = "httpError"
    /\ results[1].videos = << >>
    /\ Len(results[1].images) = 1
    /\ Len(results[1].results) = 2
    /\ logs[1] = {LogFailed("video"), LogError("video")}

\* "site:d1 OR site:d2 OR ..." over the domains, in input order
RECURSIVE SiteAlternatives(_)
SiteAlternatives(domains) ==
    IF Len(domains) = 1 THEN "site:" \o domains[1]
    ELSE "site:" \o domains[1] \o " OR " \o SiteAlternatives(Tail(domains))

\* " -site:d" for each domain, in input order
RECURSIVE SiteExclusions(_)
SiteExclusions(domains) ==
    IF Len(domains) = 0 THEN ""
    ELSE " -site:" \o domains[1] \o SiteExclusions(Tail(domains))

\* the domain list of an optional argument, empty when it is not given
Given(o) == IF o = Undefined THEN << >> ELSE o[1]

\* C13: every request carries the original query, then " (site:d1 OR site:d2
\* ...)" when domains are included, then " -site:d" for each excluded domain,
\* each in input order and the include filter first; with no domain given it
\* carries the original query.
C13_QueryRewriting ==
    \A c \in Calls : \A i \in 1..Len(requests[c]) :
        LET inc == Given(args[c].includeDomains)
            exc == Given(args[c].excludeDomains)
        IN  /\ requests[c][i].q
                  = args[c].query
                      \o (IF Len(inc) > 0 THEN " (" \o SiteAlternatives(inc) \o ")" ELSE "")
                      \o SiteExclusions(exc)
            /\ (Len(inc) = 0 /\ Len(exc) = 0) => requests[c][i].q = args[c].query

\* two included domains, joined by OR inside one pair of parentheses
C13_Witness ==
    /\ pc[1] = "returned"
    /\ args[1].includeDomains = Some(<<"a.com", "b.org">>)
    /\ Len(requests[1]) > 0
    /\ requests[1][1].q = "cats (site:a.com OR site:b.org)"

\* the categories the caller asked for: those listed in content_types, and
\* web alone when options or content_types is not given
Wanted(c) ==
    IF args[c].options = Undefined \/ args[c].options[1].content_types = Undefined
    THEN {"web"}
    ELSE {args[c].options[1].content_types[1][i] :
             i \in 1..Len(args[c].options[1].content_types[1])}

\* C14: an invocation that passed the key check has issued exactly one
\* request to the endpoint of each category asked for (listed twice or not)
\* and none to any other endpoint, each with the same query and with
\* num = maxResults (10 when not given); no request is added later.
C14_OneRequestPerCategory ==
    \A c \in Calls :
        pc[c] \in {"awaitAll", "returned"}
        => /\ Len(requests[c]) = Cardinality(Wanted(c))
           /\ {requests[c][i].url : i \in 1..Len(requests[c])}
                 = {Endpoint(cat) : cat \in Wanted(c)}
           /\ \A i \in 1..Len(requests[c]) :
                 /\ requests[c][i].q = requests[c][1].q
                 /\ requests[c][i].num
                       = IF args[c].maxResults = Undefined THEN 10
                         ELSE args[c].maxResults[1]

\* web listed twice, asked once
C14_Witness ==
    /\ pc[1] = "returned"
    /\ args[1].options = WithTypes(<<"web", "web">>)
    /\ Len(requests[1]) = 1
    /\ requests[1][1].url = "https://google.serper.dev/search"
    /\ requests[1][1].num = 10

\* a step of the handler of a category in invocation c
Stepped(c, cat) == handler'[c][cat] # handler[c][cat]

\* C15: results.videos changes only in a step of the video handler,
\* results.images only in a step of the image handler and results.results
\* only in a step of the web or the news handler; the list of a category
\* that is not active is still empty when search returns.
C15_DisjointOwnership ==
    /\ [][\A c \in Calls :
            /\ results'[c].videos # results[c].videos => Stepped(c, "video")
            /\ results'[c].images # results[c].images => Stepped(c, "image")
            /\ results'[c].results # results[c].results
                  => (Stepped(c, "web") \/ Stepped(c, "news"))]_vars
    /\ [](\A c \in Calls :
            pc[c] = "returned"
            => /\ "video" \notin Wanted(c) => results[c].videos = << >>
               /\ "image" \notin Wanted(c) => results[c].images = << >>
               /\ Wanted(c) \cap {"web", "news"} = {} => results[c].results = << >>)

\* videos and images filled by their own handlers, results.results left empty
C15_Witness ==
    /\ pc[1] = "returned"
    /\ Wanted(1) = {"video", "image"}
    /\ Len(results[1].videos) = 2
    /\ Len(results[1].images) = 2
    /\ results[1].results = << >>

\* C16: the step in which a web or a news handler finishes in failure
\* leaves results.results as it was; so when the web call fails, the items a
\* news handler appended earlier are in the returned value.
C16_FailureLeavesResults ==
    /\ [][\A c \in Calls : \A cat \in {"web", "news"} :
            (Stepped(c, cat) /\ Failed(c, cat)')
            => results'[c].results = results[c].results]_vars
    /\ [](\A c \in Calls :
            (pc[c] = "returned" /\ Succeeded(c, "news") /\ Failed(c, "web"))
            => /\ results[c].results = Expected(c, "news")
               /\ results[c].number_of_results = Len(Expected(c, "news")))

\* the news items arrived first, then the web call was refused
C16_Witness ==
    /\ pc[1] = "returned"
    /\ finished[1] = <<"news", "web">>
    /\ Succeeded(1, "news")
    /\ response[1]["web"].status = "httpError"
    /\ Len(results[1].results) = 2

\* C17: in results.videos the position of every item is its zero-based
\* index in that list, whatever position the upstream item carried.
C17_VideoPositionIsIndex ==
    \A c \in Calls : \A i \in 1..Len(results[c].videos) :
        results[c].videos[i].position = i - 1

\* two videos that came with the positions 101 and 102 are at 0 and 1
C17_Witness ==
    /\ pc[1] = "returned"
    /\ Len(results[1].videos) = 2
    /\ Upstream(1, "video")[1].position = 101
    /\ Upstream(1, "video")[2].position = 102
    /\ results[1].videos[2].position = 1

\* an optional string is present when it is given and not empty
Present(o) == o # Undefined /\ o # Some("")

\* C18: the thumbnailUrl of a normalised image is the upstream thumbnailUrl
\* when present, else the upstream imageUrl when present, else "".
C18_ThumbnailFallback ==
    \A c \in Calls :
        Succeeded(c, "image")
        => /\ Len(results[c].images) = Kept(c, "image")
           /\ \A i \in 1..Kept(c, "image") :
                 LET up == Upstream(c, "image")[i]
                 IN  results[c].images[i].thumbnailUrl
                        = IF Present(up.thumbnailUrl) THEN up.thumbnailUrl[1]
                          ELSE IF Present(up.imageUrl) THEN up.imageUrl[1]
                          ELSE ""

\* an image without thumbnailUrl got its imageUrl as thumbnail
C18_Witness ==
    /\ pc[1] = "returned"
    /\ Len(results[1].images) = 2
    /\ Upstream(1, "image")[2].thumbnailUrl = Undefined
    /\ results[1].images[2].thumbnailUrl = "image image-2"
    /\ results[1].images[1].thumbnailUrl = "thumb image-1"

\* what the handler of a category leaves of an object when it finishes with
\* the response r, run on its own
Effect(cat, res, r, maxResults) ==
    IF r.status = "ok" THEN Parsed(cat, res, r, maxResults).results
    ELSE Fetched(cat, res, r).results

\* the object of an invocation run alone: a fresh SearchResults on which the
\* handlers finish in the given order, each with the response it got
RECURSIVE Alone(_, _, _)
Alone(a, resp, order) ==
    IF Len(order) = 0 THEN NewResults(a)
    ELSE LET cat == order[Len(order)]
         IN  Effect(cat, Alone(a, resp, SubSeq(order, 1, Len(order) - 1)),
                    resp[cat], EffectiveMax(a))

\* C19: two invocations on one provider do not interfere: a step of one
\* leaves the SearchResults, the requests and the log of the other as they
\* were, and the object of each is at every moment, and when returned, what
\* the invocation run alone with the same responses in the same order yields.
C19_InvocationsIndependent ==
    /\ [][\A c \in Calls :
            (handler'[c] = handler[c] /\ pc'[c] = pc[c])
            => /\ results'[c] = results[c]
               /\ requests'[c] = requests[c]
               /\ logs'[c] = logs[c]]_vars
    /\ [](\A c \in Calls :
            /\ pc[c] = "awaitAll"
                  => results[c] = Alone(args[c], response[c], finished[c])
            /\ pc[c] = "returned"
                  => LET alone == Alone(args[c], response[c], finished[c])
                     IN  results[c]
                            = [alone EXCEPT !.number_of_results = Len(alone.results)])

\* both invocations returned, with different arguments and different values
C19_Witness ==
    /\ pc[1] = "returned" /\ pc[2] = "returned"
    /\ args[1] # args[2]
    /\ Len(results[1].results) = 2
    /\ Len(results[2].results) = 1
    /\ results[1].results[1] # results[2].results[1]

\* C20: with content_types given as an empty list the default is not
\* applied: search issues no request, starts no handler and returns empty
\* lists, number_of_results 0 and the original query.
C20_EmptyContentTypes ==
    \A c \in Calls :
        (/\ args[c].called
         /\ args[c].options # Undefined
         /\ args[c].options[1].content_types = Some(<< >>))
        => /\ requests[c] = << >>
           /\ \A cat \in Categories : handler[c][cat] = "idle"
           /\ pc[c] = "returned"
                 => results[c] = [results |-> << >>, images |-> << >>,
                                  videos |-> << >>, query |-> args[c].query,
                                  number_of_results |-> 0]

\* returned for an empty content_types, with domain filters given
C20_Witness ==
    /\ pc[1] = "returned"
    /\ args[1].options = WithTypes(<< >>)
    /\ args[1].includeDomains = Some(<<"a.com">>)
    /\ requests[1] = << >>
    /\ results[1].query = "cats"

=============================================================================
